---------------------------- MODULE Spec2Model ----------------------------
(***************************************************************************)
(* Model of the registration and transform-propagation scripts             *)
(*   exploratory_pipeline/registration/coreg_pipeline.py                   *)
(*   exploratory_pipeline/registration/reg_mspace_masks.py                 *)
(*                                                                         *)
(* Volumes are one-dimensional.  Physical coordinates are integers in      *)
(* half-voxel units, so that a sample point can fall between two voxels     *)
(* and linear and nearest-neighbour interpolation differ.                  *)
(***************************************************************************)
EXTENDS Integers, Sequences, FiniteSets, TLC

VARIABLES
    prog,      \* the entry point that was started
    args,      \* the arguments of the entry point
    fs,        \* the file system: path -> file content
    pc,        \* position in the running function
    loc,       \* local variables of the running function
    opt,       \* optimizer state after Execute (stop condition)
    ret,       \* values returned so far, per function
    printed,   \* lines written to stdout
    error,     \* the exception that left the entry point, or NoError
    log,       \* history: resamplings, reads and writes performed
    walk       \* state of the directory walk of reg_mspace_masks.py

vars == <<prog, args, fs, pc, loc, opt, ret, printed, error, log, walk>>

-----------------------------------------------------------------------------
(* Bounds of the model *)

MaxLen == 2

MaxShift == 2

MaxInputs == 2

NPatients == 1

NFolders == 2

-----------------------------------------------------------------------------
(* Values *)

None == "none"

Max(S) == CHOOSE x \in S : \A y \in S : y <= x

SetOf(s) == {s[i] : i \in DOMAIN s}

\* sitk.sitkFloat32, sitk.sitkUInt8, sitk.sitkLinear, sitk.sitkNearestNeighbor
sitkFloat32 == "sitkFloat32"

sitkUInt8 == "sitkUInt8"

sitkLinear == "sitkLinear"

sitkNearestNeighbor == "sitkNearestNeighbor"

\* A voxel grid: number of voxels, spacing and origin (half-voxel units).
Grid(n, sp, o) == [size |-> n, spacing |-> sp, origin |-> o]

Grids == {Grid(n, sp, o) : n \in 1..MaxLen, sp \in {2, 4}, o \in {0, 1}}

\* A one-dimensional affine transform q = a*p + t.  a = 0 is singular.
Transforms == [a : {0, 1, 2}, t : (0 - MaxShift)..MaxShift]

\* An image file on disk and a transform file on disk.
ImageFile(g, px, d) == [kind |-> "image", grid |-> g, pix |-> px, data |-> d]

TransformFile(tx) == [kind |-> "transform", tx |-> tx]

NoFile == [kind |-> "missing"]

-----------------------------------------------------------------------------
(* Paths: a path is a sequence of tokens whose concatenation is the path    *)
(* string.  A token holds a dot only as its first character.               *)

ExtTokens == {".nii", ".gz", ".tfm"}

\* os.path.splitext(p)[0]: the path up to its last dot.
SplitextBase(p) ==
    LET dots == {i \in 2..Len(p) : p[i] \in ExtTokens}
    IN  IF dots = {} THEN p ELSE SubSeq(p, 1, Max(dots) - 1)

DefaultOutRegistered(t1_path) == SplitextBase(t1_path) \o <<"_toMag", ".nii", ".gz">>

DefaultOutMatrixNoExtension(t1_path) ==
    SelectSeq(t1_path, LAMBDA tok : tok \notin ExtTokens) \o <<"_toMag_transform", ".tfm">>

DefaultOutMatrix(t1_path) == SplitextBase(t1_path) \o <<"_toMag_transform", ".tfm">>

DefaultOutMask(mask_path) == SplitextBase(mask_path) \o <<"_toMag", ".nii", ".gz">>

DefaultOutFlair(flair_path) == SplitextBase(flair_path) \o <<"_toMag", ".nii", ".gz">>

-----------------------------------------------------------------------------
(* SimpleITK operations used by the scripts *)

CastToClamped(px, v) == IF px = sitkUInt8 /\ v > 255 THEN 255 ELSE v

\* The cast sitk.ReadImage applies to a stored integer sample.
CastTo(px, v) == IF px = sitkUInt8 THEN v % 256 ELSE v

ReadOk(f) == f.kind = "image"

\* sitk.ReadImage(path, pixelID): the stored volume, cast to pixelID.
ReadImage(f, px) ==
    [grid |-> f.grid, pix |-> px,
     data |-> [i \in DOMAIN f.data |-> CastTo(px, f.data[i])]]

\* sitk.WriteImage(image, path)
WrittenImage(img) == ImageFile(img.grid, img.pix, img.data)

\* Physical position of voxel i (1-based) of grid g.
PointOf(g, i) == g.origin + g.spacing * (i - 1)

\* The transform maps a point of the reference space into the source space.
TransformPoint(tx, p) == tx.a * p + tx.t

\* The point lies in the source buffer: continuous index in [-0.5, size-0.5).
InsideBuffer(g, q) ==
    /\ 2 * (q - g.origin) >= 0 - g.spacing
    /\ 2 * (q - g.origin) < (2 * g.size - 1) * g.spacing

\* Nearest-neighbour sample: continuous index rounded, halves upwards.
NearestSample(src, q) ==
    LET g == src.grid
        j == (2 * (q - g.origin) + g.spacing) \div (2 * g.spacing)
    IN  src.data[j + 1]

\* Linear sample: weighted mean of the two neighbours, clamped at the edges,
\* truncated for an integer pixel type.
LinearSample(src, q) ==
    LET g == src.grid
        l == (q - g.origin) \div g.spacing
        r == (q - g.origin) % g.spacing
    IN  IF l < 0 THEN src.data[1]
        ELSE IF l >= g.size - 1 THEN src.data[g.size]
        ELSE (src.data[l + 1] * (g.spacing - r) + src.data[l + 2] * r) \div g.spacing

Interpolate(interp, src, q) ==
    IF interp = sitkNearestNeighbor THEN NearestSample(src, q) ELSE LinearSample(src, q)

\* The grid of the volume ResampleImageFilter produces: SetReferenceImage.
OutputGridBySource(ref, src) == src.grid

OutputGrid(ref, src) == ref.grid

\* resampler.Execute(src) after SetReferenceImage(ref), SetInterpolator(interp),
\* SetDefaultPixelValue(fill), SetTransform(tx).
Resample(src, ref, tx, interp, fill) ==
    LET g == OutputGrid(ref, src)
    IN  [grid |-> g, pix |-> src.pix,
         data |-> [i \in 1..g.size |->
                     LET q == TransformPoint(tx, PointOf(g, i))
                     IN  IF InsideBuffer(src.grid, q)
                         THEN Interpolate(interp, src, q)
                         ELSE fill]]


-----------------------------------------------------------------------------
(* Inputs of main_registration_pipeline (the command line of               *)
(* coreg_pipeline.py) and the files they name.                             *)

T1Path == <<"T1", ".nii", ".gz">>

FlairPath == <<"FLAIR", ".nii", ".gz">>

MagPath == <<"mag", ".nii", ".gz">>

MaskPath == <<"mask", ".nii", ".gz">>

TfmPath == <<"T1", ".nii", "_toMag_transform", ".tfm">>

PipelineArgs ==
    [t1_path |-> T1Path, flair |-> FlairPath, magnitude_path |-> MagPath,
     mask_path |-> MaskPath, transform_matrix |-> None, out_mask |-> None]

Paths ==
    {T1Path, FlairPath, MagPath, MaskPath, TfmPath,
     DefaultOutRegistered(T1Path), DefaultOutMatrix(T1Path),
     DefaultOutMask(MaskPath), DefaultOutFlair(FlairPath),
     <<"lesions_MSpace_Mask", ".nii", ".gz">>}

Ramp(n) == [i \in 1..n |-> 4 * i]

Slope(n) == [i \in 1..n |-> 4 * (n + 1 - i)]

MagFiles ==
    {NoFile} \cup
    {ImageFile(g, sitkFloat32, [i \in 1..g.size |-> 8]) :
        g \in {Grid(MaxLen, 2, 0), Grid(1, 4, 1)}}

T1Files ==
    {NoFile} \cup
    {ImageFile(g, sitkFloat32, Ramp(g.size)) :
        g \in {Grid(MaxLen, 2, 1), Grid(MaxLen, 4, 0)}}

FlairFiles ==
    {NoFile} \cup
    {ImageFile(g, sitkFloat32, Slope(g.size)) :
        g \in {Grid(MaxLen, 4, 1), Grid(MaxLen + 1, 2, 0)}}

\* Label maps as stored: 16-bit integers; labels above 255 occur.
MaskFiles ==
    {NoFile} \cup
    {ImageFile(Grid(MaxLen, 2, 0), "sitkInt16", [i \in 1..MaxLen |-> 2 * i - 1]),
     ImageFile(Grid(MaxLen, 4, 1), "sitkInt16", [i \in 1..MaxLen |-> 299 + i])}

\* The stop conditions of the regular-step gradient-descent optimizer.
StopConditions == {"MaxIterations", "GradientTolerance", "MinStep"}

NoLocals ==
    [fixed_image |-> None, moving_image |-> None, final_transform |-> None,
     registered_image |-> None, mask_image |-> None, flair_image |-> None,
     transform |-> None, resampled |-> None,
     out_registered |-> None, out_matrix |-> None, out_mask |-> None,
     out_flair |-> None, transform_matrix |-> None]

\* No path, no tuple of paths.
NoPath == <<>>

NoReturn == [register |-> NoPath, mask |-> NoPath, flair |-> NoPath, main |-> NoPath]

NoError == [fn |-> None, what |-> None]

NoWalk == [root |-> 0, patient |-> 0, folder |-> 0, lesion |-> None,
           seen |-> {}, calls |-> {}, written |-> {}]

RaiseAndContinue(fn, what) ==
    /\ pc' = "reg_write_transform"
    /\ error' = [fn |-> fn, what |-> what]

\* An uncaught exception leaves the entry point: nothing in the scripts
\* catches one.
Raise(fn, what) ==
    /\ pc' = "raised"
    /\ error' = [fn |-> fn, what |-> what]

InitPipeline ==
    /\ prog = "main_registration_pipeline"
    /\ args = PipelineArgs
    /\ \E m \in MagFiles, t \in T1Files, k \in MaskFiles, f \in FlairFiles :
          fs = [p \in Paths |->
                  IF p = MagPath THEN m
                  ELSE IF p = T1Path THEN t
                  ELSE IF p = MaskPath THEN k
                  ELSE IF p = FlairPath THEN f
                  ELSE NoFile]
    /\ pc = "reg_enter"
    /\ loc = NoLocals
    /\ opt = None
    /\ ret = NoReturn
    /\ printed = <<>>
    /\ error = NoError
    /\ log = <<>>
    /\ walk = NoWalk

-----------------------------------------------------------------------------
(* register_t1_to_magnitude *)

\* Lines 28-38: default output paths, then both images are read.
RegRead ==
    /\ pc = "reg_enter"
    /\ LET l1 == [loc EXCEPT !.out_registered = DefaultOutRegistered(args.t1_path),
                             !.out_matrix = DefaultOutMatrix(args.t1_path)]
       IN  \/ /\ ReadOk(fs[args.magnitude_path])
              /\ ReadOk(fs[args.t1_path])
              /\ loc' = [l1 EXCEPT
                          !.fixed_image = ReadImage(fs[args.magnitude_path], sitkFloat32),
                          !.moving_image = ReadImage(fs[args.t1_path], sitkFloat32)]
              /\ pc' = "reg_execute"
              /\ UNCHANGED error
           \/ /\ ~(ReadOk(fs[args.magnitude_path]) /\ ReadOk(fs[args.t1_path]))
              /\ loc' = l1
              /\ Raise("register_t1_to_magnitude", "ReadImage")
    /\ UNCHANGED <<prog, args, fs, opt, ret, printed, log, walk>>

\* Lines 57-58: SetMetricSamplingStrategy(RANDOM) and
\* SetMetricSamplingPercentage(0.01) with no seed argument: the seed is
\* SimpleITK's default, the wall clock.
SamplingSeedFixed == "fixed"

SamplingSeed == "sitkWallClock"

\* The optimizer's outcome is determined by the two images and by the sample
\* of voxels the seed draws.  A draw is named by the outcome it leads to.
Draws == [tx : Transforms, stop : StopConditions]

\* The draws a run can make: any under a wall-clock seed, one and the same
\* for the same images under a fixed seed.
SampleDraws(fixed, moving) ==
    IF SamplingSeed = "sitkWallClock"
    THEN Draws
    ELSE {CHOOSE d \in Draws : d.tx.a = 1 /\ d.tx.t = moving.grid.origin - fixed.grid.origin}

\* Lines 40-79: the initial transform, the registration method and its
\* Execute.  The optimizer's result is not determined by the script: any
\* transform, with any stop condition, or an exception of the library.
RegExecute ==
    /\ pc = "reg_execute"
    /\ \/ \E d \in SampleDraws(loc.fixed_image, loc.moving_image) :
            /\ loc' = [loc EXCEPT !.final_transform = d.tx]
            /\ opt' = [stop |-> d.stop]
            /\ log' = Append(log, [ev |-> "estimate", tx |-> d.tx])
            /\ pc' = "reg_resample"
            /\ UNCHANGED error
       \/ /\ Raise("register_t1_to_magnitude", "Execute")
          /\ UNCHANGED <<loc, opt, log>>
    /\ UNCHANGED <<prog, args, fs, ret, printed, walk>>

\* The record of one resampling.
Resampling(who, src, ref, tx, interp, out) ==
    [ev |-> "resample", who |-> who, pix |-> src.pix, interp |-> interp,
     tx |-> tx, src_grid |-> src.grid, ref_grid |-> ref.grid,
     out_grid |-> out.grid, src_values |-> SetOf(src.data),
     out_values |-> SetOf(out.data)]

\* Lines 81-87: the moving image is resampled on the fixed image's grid.
RegResample ==
    /\ pc = "reg_resample"
    /\ LET out == Resample(loc.moving_image, loc.fixed_image,
                           loc.final_transform, sitkLinear, 0)
       IN  /\ loc' = [loc EXCEPT !.registered_image = out]
           /\ log' = Append(log, Resampling("t1", loc.moving_image, loc.fixed_image,
                                            loc.final_transform, sitkLinear, out))
    /\ pc' = "reg_write_image"
    /\ UNCHANGED <<prog, args, fs, opt, ret, printed, error, walk>>

\* Line 90: sitk.WriteImage(registered_image, out_registered); may fail.
RegWriteImage ==
    /\ pc = "reg_write_image"
    /\ \/ /\ fs' = [fs EXCEPT ![loc.out_registered] = WrittenImage(loc.registered_image)]
          /\ log' = Append(log, [ev |-> "write", path |-> loc.out_registered])
          /\ pc' = "reg_write_transform"
          /\ UNCHANGED error
       \/ /\ Raise("register_t1_to_magnitude", "WriteImage")
          /\ UNCHANGED <<fs, log>>
    /\ UNCHANGED <<prog, args, loc, opt, ret, printed, walk>>

WriteTransformSkipped(files, path, tx) == files

WriteTransformInitial(files, path, tx) ==
    [files EXCEPT ![path] = TransformFile([a |-> 1, t |-> 0])]

\* sitk.WriteTransform(transform, path)
WriteTransform(files, path, tx) == [files EXCEPT ![path] = TransformFile(tx)]

\* Line 91: sitk.WriteTransform(final_transform, out_matrix); may fail.
RegWriteTransform ==
    /\ pc = "reg_write_transform"
    /\ \/ /\ fs' = WriteTransform(fs, loc.out_matrix, loc.final_transform)
          /\ log' = Append(log, [ev |-> "write", path |-> loc.out_matrix])
          /\ pc' = "reg_return"
          /\ UNCHANGED error
       \/ /\ Raise("register_t1_to_magnitude", "WriteTransform")
          /\ UNCHANGED <<fs, log>>
    /\ UNCHANGED <<prog, args, loc, opt, ret, printed, walk>>

\* Lines 93-97: what the function prints, whatever the optimizer reported.
RegistrationReport(t1_path, magnitude_path, out_registered, out_matrix) ==
    <<"[Registration Complete]", <<"Fixed (Magnitude)", magnitude_path>>,
      <<"Moving (T1)", t1_path>>, <<"Registered T1", out_registered>>,
      <<"Transform", out_matrix>>>>

AfterRegisterAgain == "reg_enter"

\* Lines 205-206: after register_t1_to_magnitude returns, the pipeline
\* calls apply_transform_to_mask.
AfterRegister == "mask_enter"

\* Lines 93-99 and 205: print, return (out_registered, out_matrix); the
\* caller binds transform_matrix and calls apply_transform_to_mask.
RegReturn ==
    /\ pc = "reg_return"
    /\ printed' = printed \o RegistrationReport(args.t1_path, args.magnitude_path,
                                                loc.out_registered, loc.out_matrix)
    /\ ret' = [ret EXCEPT !.register = <<loc.out_registered, loc.out_matrix>>]
    /\ loc' = [NoLocals EXCEPT !.transform_matrix = loc.out_matrix]
    /\ pc' = AfterRegister
    /\ UNCHANGED <<prog, args, fs, opt, error, log, walk>>

-----------------------------------------------------------------------------
(* apply_transform_to_mask (the same text in coreg_pipeline.py and in       *)
(* reg_mspace_masks.py)                                                    *)

\* The interpolator apply_transform_to_mask sets.
MaskInterpolatorLinear == sitkLinear

MaskInterpolator == sitkNearestNeighbor

\* The pixel type apply_transform_to_mask reads the mask as.
MaskPixelType == sitkUInt8

\* Lines 121-130: default output path, then the fixed image, the mask (as
\* 8-bit unsigned) and the transform are read.
MaskRead ==
    /\ pc = "mask_enter"
    /\ LET l1 == [loc EXCEPT !.out_mask =
                     IF args.out_mask = None THEN DefaultOutMask(args.mask_path)
                     ELSE args.out_mask]
       IN  \/ /\ ReadOk(fs[args.magnitude_path])
              /\ ReadOk(fs[args.mask_path])
              /\ fs[loc.transform_matrix].kind = "transform"
              /\ loc' = [l1 EXCEPT
                          !.fixed_image = ReadImage(fs[args.magnitude_path], sitkFloat32),
                          !.mask_image = ReadImage(fs[args.mask_path], MaskPixelType),
                          !.transform = fs[loc.transform_matrix].tx]
              /\ log' = Append(log, [ev |-> "read_transform", who |-> "mask",
                                     path |-> loc.transform_matrix,
                                     tx |-> fs[loc.transform_matrix].tx])
              /\ pc' = "mask_resample"
              /\ UNCHANGED error
           \/ /\ ~ReadOk(fs[args.magnitude_path]) \/ ~ReadOk(fs[args.mask_path])
              /\ loc' = l1
              /\ Raise("apply_transform_to_mask", "ReadImage")
              /\ UNCHANGED log
           \/ /\ ReadOk(fs[args.magnitude_path])
              /\ ReadOk(fs[args.mask_path])
              /\ fs[loc.transform_matrix].kind # "transform"
              /\ loc' = l1
              /\ Raise("apply_transform_to_mask", "ReadTransform")
              /\ UNCHANGED log
    /\ UNCHANGED <<prog, args, fs, opt, ret, printed, walk>>

\* Lines 132-138: the mask is resampled on the fixed image's grid.
MaskResample ==
    /\ pc = "mask_resample"
    /\ LET out == Resample(loc.mask_image, loc.fixed_image, loc.transform,
                           MaskInterpolator, 0)
       IN  /\ loc' = [loc EXCEPT !.resampled = out]
           /\ log' = Append(log, Resampling("mask", loc.mask_image, loc.fixed_image,
                                            loc.transform, MaskInterpolator, out))
    /\ pc' = "mask_write"
    /\ UNCHANGED <<prog, args, fs, opt, ret, printed, error, walk>>

\* Lines 140-148 and 206: the resampled mask is written, the function prints
\* and returns; main_registration_pipeline goes on to the FLAIR.
MaskWrite ==
    /\ pc = "mask_write"
    /\ \/ /\ fs' = [fs EXCEPT ![loc.out_mask] = WrittenImage(loc.resampled)]
          /\ log' = Append(log, [ev |-> "write", path |-> loc.out_mask])
          /\ printed' = printed \o <<"[Mask Resampling Complete]">>
          /\ ret' = [ret EXCEPT !.mask = loc.out_mask]
          /\ loc' = [NoLocals EXCEPT !.transform_matrix = loc.transform_matrix]
          /\ pc' = IF prog = "main_registration_pipeline" THEN "flair_enter" ELSE "done"
          /\ UNCHANGED error
       \/ /\ Raise("apply_transform_to_mask", "WriteImage")
          /\ UNCHANGED <<fs, log, printed, ret, loc>>
    /\ UNCHANGED <<prog, args, opt, walk>>

-----------------------------------------------------------------------------
(* apply_transform_to_flair *)

\* The interpolator apply_transform_to_flair sets.
FlairInterpolator == sitkLinear

\* Lines 170-179: default output path; fixed image, FLAIR and transform read.
FlairRead ==
    /\ pc = "flair_enter"
    /\ LET l1 == [loc EXCEPT !.out_flair = DefaultOutFlair(args.flair)]
       IN  \/ /\ ReadOk(fs[args.magnitude_path])
              /\ ReadOk(fs[args.flair])
              /\ fs[loc.transform_matrix].kind = "transform"
              /\ loc' = [l1 EXCEPT
                          !.fixed_image = ReadImage(fs[args.magnitude_path], sitkFloat32),
                          !.flair_image = ReadImage(fs[args.flair], sitkFloat32),
                          !.transform = fs[loc.transform_matrix].tx]
              /\ log' = Append(log, [ev |-> "read_transform", who |-> "flair",
                                     path |-> loc.transform_matrix,
                                     tx |-> fs[loc.transform_matrix].tx])
              /\ pc' = "flair_resample"
              /\ UNCHANGED error
           \/ /\ ~ReadOk(fs[args.magnitude_path]) \/ ~ReadOk(fs[args.flair])
              /\ loc' = l1
              /\ Raise("apply_transform_to_flair", "ReadImage")
              /\ UNCHANGED log
           \/ /\ ReadOk(fs[args.magnitude_path])
              /\ ReadOk(fs[args.flair])
              /\ fs[loc.transform_matrix].kind # "transform"
              /\ loc' = l1
              /\ Raise("apply_transform_to_flair", "ReadTransform")
              /\ UNCHANGED log
    /\ UNCHANGED <<prog, args, fs, opt, ret, printed, walk>>

\* Lines 181-187: the FLAIR is resampled on the fixed image's grid.
FlairResample ==
    /\ pc = "flair_resample"
    /\ LET out == Resample(loc.flair_image, loc.fixed_image, loc.transform,
                           FlairInterpolator, 0)
       IN  /\ loc' = [loc EXCEPT !.resampled = out]
           /\ log' = Append(log, Resampling("flair", loc.flair_image, loc.fixed_image,
                                            loc.transform, FlairInterpolator, out))
    /\ pc' = "flair_write"
    /\ UNCHANGED <<prog, args, fs, opt, ret, printed, error, walk>>

\* Lines 189-197: the resampled FLAIR is written; print and return.
FlairWrite ==
    /\ pc = "flair_write"
    /\ \/ /\ fs' = [fs EXCEPT ![loc.out_flair] = WrittenImage(loc.resampled)]
          /\ log' = Append(log, [ev |-> "write", path |-> loc.out_flair])
          /\ printed' = printed \o <<"[FLAIR Resampling Complete]">>
          /\ ret' = [ret EXCEPT !.flair = loc.out_flair]
          /\ loc' = NoLocals
          /\ pc' = "main_return"
          /\ UNCHANGED error
       \/ /\ Raise("apply_transform_to_flair", "WriteImage")
          /\ UNCHANGED <<fs, log, printed, ret, loc>>
    /\ UNCHANGED <<prog, args, opt, walk>>

\* Line 208: return registered_t1, transformed_mask, registered_flair.
MainReturn ==
    /\ pc = "main_return"
    /\ ret' = [ret EXCEPT !.main = <<ret.register[1], ret.mask, ret.flair>>]
    /\ pc' = "done"
    /\ UNCHANGED <<prog, args, fs, loc, opt, printed, error, log, walk>>

-----------------------------------------------------------------------------
(* apply_transform_to_mask called on its own, as the directory walk calls   *)
(* it: with a label file, a reference image and a persisted transform.     *)

LesionOutPath == <<"lesions_MSpace_Mask", ".nii", ".gz">>

LabelValues == {0, 1, 300}

LabelFiles ==
    {ImageFile(g, "sitkInt16", d) :
        g \in Grids, d \in UNION {[1..n -> LabelValues] : n \in 1..MaxLen}}

InitApplyMask ==
    /\ prog = "apply_transform_to_mask"
    /\ \E o \in {None, LesionOutPath} :
          args = [PipelineArgs EXCEPT !.transform_matrix = TfmPath, !.out_mask = o]
    /\ \E m \in {NoFile} \cup {ImageFile(g, sitkFloat32, [i \in 1..g.size |-> 8]) : g \in Grids},
          k \in {NoFile} \cup {f \in LabelFiles : Len(f.data) = f.grid.size},
          t \in {NoFile} \cup {TransformFile(tx) : tx \in Transforms} :
          fs = [p \in Paths |->
                  IF p = MagPath THEN m
                  ELSE IF p = MaskPath THEN k
                  ELSE IF p = TfmPath THEN t
                  ELSE NoFile]
    /\ pc = "mask_enter"
    /\ loc = [NoLocals EXCEPT !.transform_matrix = TfmPath]
    /\ opt = None
    /\ ret = NoReturn
    /\ printed = <<>>
    /\ error = NoError
    /\ log = <<>>
    /\ walk = NoWalk

-----------------------------------------------------------------------------
(* reg_mspace_masks.py: main and transform_lesion_labels_in_directory.      *)
(* The directory tree is input the walk only reads; each entry is inspected *)
(* once, and what the walk finds there is chosen when it looks.            *)

\* main: baseline_dir, then followup_dir.
RootDirs == <<"clean_baseline", "follow_up_both">>

PatientKinds == {"not_a_directory", "no_results_folder", "no_lesion_file", "patient"}

FolderKinds == {"not_a_directory", "not_a_year", "no_registered", "no_transform",
                "no_magnitude", "year"}

\* Lines 123-141: the paths of one year folder.
RegisteredPath(r, p, f, name) == <<RootDirs[r], p, f, "registered", name>>

InitWalk ==
    /\ prog = "reg_mspace_masks.main"
    /\ args = PipelineArgs
    /\ fs = [p \in Paths |-> NoFile]
    /\ pc = "walk_root"
    /\ loc = NoLocals
    /\ opt = None
    /\ ret = NoReturn
    /\ printed = <<>>
    /\ error = NoError
    /\ log = <<>>
    /\ walk = [NoWalk EXCEPT !.root = 1]

\* Lines 166/169 and 89: transform_lesion_labels_in_directory(root) lists
\* the root directory; os.listdir raises when it cannot.
WalkListRoot ==
    /\ pc = "walk_root"
    /\ \/ /\ walk' = [walk EXCEPT !.patient = 0, !.folder = 0]
          /\ pc' = "walk_patient"
          /\ UNCHANGED error
       \/ /\ Raise("transform_lesion_labels_in_directory", "os.listdir")
          /\ UNCHANGED walk
    /\ UNCHANGED <<prog, args, fs, loc, opt, ret, printed, log>>

\* Lines 89-111: the next patient entry; skipped unless it is a directory
\* with a RESULTS_xnatSpaceMS folder holding a lesion label file.
WalkPatient ==
    /\ pc = "walk_patient"
    /\ walk.patient < NPatients
    /\ \E k \in PatientKinds, readable \in BOOLEAN :
          /\ walk' = [walk EXCEPT
                        !.patient = walk.patient + 1,
                        !.folder = 0,
                        !.lesion = IF k = "patient"
                                   THEN [readable |-> readable]
                                   ELSE None,
                        !.seen = walk.seen \cup {<<walk.root, walk.patient + 1>>}]
          /\ k # "patient" => ~readable
          /\ pc' = IF k = "patient" THEN "walk_folder" ELSE "walk_patient"
    /\ UNCHANGED <<prog, args, fs, loc, opt, ret, printed, error, log>>

\* Line 89, loop exhausted: the function returns to main (lines 168-174).
WalkEndRoot ==
    /\ pc = "walk_patient"
    /\ walk.patient = NPatients
    /\ \/ /\ walk.root < Len(RootDirs)
          /\ walk' = [walk EXCEPT !.root = walk.root + 1, !.patient = 0, !.folder = 0,
                                  !.lesion = None]
          /\ pc' = "walk_root"
          /\ UNCHANGED printed
       \/ /\ walk.root = Len(RootDirs)
          /\ printed' = Append(printed, "All done.")
          /\ pc' = "done"
          /\ UNCHANGED walk
    /\ UNCHANGED <<prog, args, fs, loc, opt, ret, error, log>>

\* Lines 114-138: the next entry of the patient directory; skipped unless it
\* is a directory named 20*, with registered/, the transform and the
\* magnitude image.
WalkFolder ==
    /\ pc = "walk_folder"
    /\ walk.folder < NFolders
    /\ \E k \in FolderKinds :
          /\ walk' = [walk EXCEPT
                        !.folder = walk.folder + 1,
                        !.seen = walk.seen \cup
                                   {<<walk.root, walk.patient, walk.folder + 1>>}]
          /\ pc' = IF k = "year" THEN "walk_apply" ELSE "walk_folder"
    /\ UNCHANGED <<prog, args, fs, loc, opt, ret, printed, error, log>>

\* Line 114, loop exhausted: on to the next patient.
WalkEndPatient ==
    /\ pc = "walk_folder"
    /\ walk.folder = NFolders
    /\ walk' = [walk EXCEPT !.lesion = None]
    /\ pc' = "walk_patient"
    /\ UNCHANGED <<prog, args, fs, loc, opt, ret, printed, error, log>>

\* Lines 140-148: apply_transform_to_mask on the lesion label file with the
\* year folder's transform and magnitude image.  The files exist; reading
\* one that is damaged, or writing the output, can still raise.
WalkApply ==
    /\ pc = "walk_apply"
    /\ LET out == RegisteredPath(walk.root, walk.patient, walk.folder,
                                 "lesions_MSpace_Mask.nii.gz")
           here == [entry |-> <<walk.root, walk.patient, walk.folder>>,
                    transform_matrix |->
                        RegisteredPath(walk.root, walk.patient, walk.folder,
                                       "T1_corrected_canonical.nii_toMag_transform.tfm"),
                    magnitude_path |->
                        RegisteredPath(walk.root, walk.patient, walk.folder,
                                       "mag_canonical.nii.gz"),
                    out_mask |-> out]
       IN  \/ /\ walk.lesion.readable
              /\ walk' = [walk EXCEPT !.calls = walk.calls \cup {here},
                                      !.written = walk.written \cup {out}]
              /\ printed' = Append(printed, "[Mask Resampling Complete]")
              /\ pc' = "walk_folder"
              /\ UNCHANGED error
           \/ /\ walk.lesion.readable
              /\ walk' = [walk EXCEPT !.calls = walk.calls \cup {here}]
              /\ Raise("apply_transform_to_mask", "ReadTransform or WriteImage")
              /\ UNCHANGED printed
           \/ /\ ~walk.lesion.readable
              /\ walk' = [walk EXCEPT !.calls = walk.calls \cup {here}]
              /\ Raise("apply_transform_to_mask", "ReadImage")
              /\ UNCHANGED printed
    /\ UNCHANGED <<prog, args, fs, loc, opt, ret, log>>

-----------------------------------------------------------------------------
(* The specification *)

Init == InitPipeline \/ InitApplyMask \/ InitWalk

Next ==
    \/ RegRead
    \/ RegExecute
    \/ RegResample
    \/ RegWriteImage
    \/ RegWriteTransform
    \/ RegReturn
    \/ MaskRead
    \/ MaskResample
    \/ MaskWrite
    \/ FlairRead
    \/ FlairResample
    \/ FlairWrite
    \/ MainReturn
    \/ WalkListRoot
    \/ WalkPatient
    \/ WalkEndRoot
    \/ WalkFolder
    \/ WalkEndPatient
    \/ WalkApply

Spec == Init /\ [][Next]_vars

\* register_t1_to_magnitude's estimate run a second time on the same,
\* unchanged input files (lines 36-79 read them and write nothing).
RunAgain ==
    /\ pc = "reg_resample"
    /\ Cardinality({i \in 1..Len(log) : log[i].ev = "estimate"}) < 2
    /\ pc' = "reg_enter"
    /\ loc' = NoLocals
    /\ opt' = None
    /\ UNCHANGED <<prog, args, fs, ret, printed, error, log, walk>>

NextRerun ==
    \/ RegRead
    \/ RegExecute
    \/ RunAgain

SpecRerun == InitPipeline /\ [][NextRerun]_vars

-----------------------------------------------------------------------------
(* register_t1_to_magnitude's Execute, step by step: the multi-resolution  *)
(* schedule and the regular-step gradient-descent optimizer as lines 62-76 *)
(* configure them.                                                          *)

\* Line 65: numberOfIterations=200.
numberOfIterations == 200

\* Lines 63-64: learningRate=2.0 and minStep=1e-4, in units of 1e-4.
learningRate == 20000

minStep == 1

\* Lines 71-72: shrinkFactors=[4, 2, 1], smoothingSigmas=[2, 1, 0].
shrinkFactors == <<4, 2, 1>>

smoothingSigmas == <<2, 1, 0>>

\* The step length after k relaxations (each halves it: the relaxation
\* factor is left at its default) is below minStep.
StepTooSmall(k) == learningRate < minStep * 2^k

\* Twice the physical centre of a grid.
Centre2(g) == 2 * g.origin + g.spacing * (g.size - 1)

\* Lines 41-52: CenteredTransformInitializer(..., GEOMETRY) aligns the
\* geometric centres of the two images.
CenteredTransformInitializer(fixed, moving) ==
    [a |-> 1, t |-> (Centre2(moving.grid) - Centre2(fixed.grid)) \div 2]

\* The parameters one optimizer step can move to: the translation by one
\* unit, and for the affine transform also the scale.
StepsFrom(tx, rigid) ==
    {[a |-> tx.a, t |-> t] : t \in {tx.t - 1, tx.t + 1} \cap ((0 - MaxShift)..MaxShift)}
      \cup (IF rigid THEN {} ELSE {[a |-> 3 - tx.a, t |-> tx.t]})

LevelSeedInitial(initial_transform, estimate) == initial_transform

\* The transform a level after the first starts from: the one the previous
\* level ended with (the registration optimizes one transform object).
LevelSeed(initial_transform, estimate) == estimate

Level(n, tx) ==
    [level |-> n, shrink |-> shrinkFactors[n], sigma |-> smoothingSigmas[n],
     iteration |-> 0, relaxations |-> 0, tx |-> tx, stop |-> None]

ExecuteT1Files ==
    {NoFile} \cup
    {ImageFile(Grid(MaxLen, 2, o), sitkFloat32, Ramp(MaxLen)) : o \in 0..MaxShift}

\* register_t1_to_magnitude called with two paths and the rigid flag.
InitExecute ==
    /\ prog = "register_t1_to_magnitude"
    /\ \E rigid \in BOOLEAN :
          args = [t1_path |-> T1Path, magnitude_path |-> MagPath, rigid |-> rigid]
    /\ \E t \in ExecuteT1Files :
          fs = [p \in Paths |->
                  IF p = MagPath
                  THEN ImageFile(Grid(MaxLen, 2, 0), sitkFloat32, [i \in 1..MaxLen |-> 8])
                  ELSE IF p = T1Path THEN t
                  ELSE NoFile]
    /\ pc = "reg_enter"
    /\ loc = NoLocals
    /\ opt = None
    /\ ret = NoReturn
    /\ printed = <<>>
    /\ error = NoError
    /\ log = <<>>
    /\ walk = NoWalk

\* Lines 41-52, 76 and 79: the initial transform is computed and Execute
\* enters the first, coarsest level with it.
ExecuteStart ==
    /\ pc = "reg_execute"
    /\ opt' = Level(1, CenteredTransformInitializer(loc.fixed_image, loc.moving_image))
    /\ pc' = "opt_iterate"
    /\ UNCHANGED <<prog, args, fs, loc, ret, printed, error, log, walk>>

\* One pass of the optimizer's loop at the current level: stop at the
\* iteration cap; else evaluate the metric (which may raise); stop when the
\* gradient magnitude is below the tolerance; when the gradient changed
\* direction relax the step and stop when it is below minStep; else move.
OptimizerIterate ==
    /\ pc = "opt_iterate"
    /\ opt.stop = None
    /\ \/ /\ opt.iteration >= numberOfIterations
          /\ opt' = [opt EXCEPT !.stop = "MaxIterations"]
          /\ UNCHANGED <<pc, error>>
       \/ /\ opt.iteration < numberOfIterations
          /\ \/ /\ opt' = [opt EXCEPT !.stop = "GradientTolerance"]
                /\ UNCHANGED <<pc, error>>
             \/ /\ StepTooSmall(opt.relaxations + 1)
                /\ opt' = [opt EXCEPT !.relaxations = @ + 1, !.stop = "MinStep"]
                /\ UNCHANGED <<pc, error>>
             \/ \E k \in {opt.relaxations, opt.relaxations + 1},
                   tx \in StepsFrom(opt.tx, args.rigid) :
                    /\ ~StepTooSmall(k)
                    /\ opt' = [opt EXCEPT !.relaxations = k, !.tx = tx,
                                          !.iteration = @ + 1]
                    /\ UNCHANGED <<pc, error>>
             \/ /\ Raise("register_t1_to_magnitude", "Execute")
                /\ UNCHANGED opt
    /\ UNCHANGED <<prog, args, fs, loc, ret, printed, log, walk>>

\* The optimizer stopped at a level that is not the last: the next finer
\* level starts, its iteration count and step length reset.
NextLevel ==
    /\ pc = "opt_iterate"
    /\ opt.stop # None
    /\ opt.level < Len(shrinkFactors)
    /\ opt' = Level(opt.level + 1,
                    LevelSeed(CenteredTransformInitializer(loc.fixed_image,
                                                           loc.moving_image),
                              opt.tx))
    /\ UNCHANGED <<prog, args, fs, pc, loc, ret, printed, error, log, walk>>

\* Line 79: the optimizer stopped at the last level: Execute returns the
\* transform.
ExecuteReturn ==
    /\ pc = "opt_iterate"
    /\ opt.stop # None
    /\ opt.level = Len(shrinkFactors)
    /\ loc' = [loc EXCEPT !.final_transform = opt.tx]
    /\ opt' = [stop |-> opt.stop]
    /\ log' = Append(log, [ev |-> "estimate", tx |-> opt.tx])
    /\ pc' = "reg_resample"
    /\ UNCHANGED <<prog, args, fs, ret, printed, error, walk>>

NextExecute ==
    \/ RegRead
    \/ ExecuteStart
    \/ OptimizerIterate
    \/ NextLevel
    \/ ExecuteReturn

SpecExecute == InitExecute /\ [][NextExecute]_vars

-----------------------------------------------------------------------------
(* transform_lesion_labels_in_directory, check by check: what each entry   *)
(* of the listing holds is chosen when the walk looks at it, and kept      *)
(* while the entry is the current one.                                      *)

\* s occurs in name as a run of consecutive tokens: the "in" of line 104.
Contains(name, s) ==
    \E i \in 1..(Len(name) - Len(s) + 1) : SubSeq(name, i, i + Len(s) - 1) = s

\* str.startswith of line 118, on the characters of the name.
StartsWith(name, s) == Len(name) >= Len(s) /\ SubSeq(name, 1, Len(s)) = s

LesionLabels == <<"lesion_labels", ".nii", ".gz">>

\* File names that may lie in RESULTS_xnatSpaceMS.
ResultNames ==
    {<<"lesion_labels", ".nii", ".gz">>, <<"sub01_", "lesion_labels", ".nii", ".gz">>,
     <<"lesion_labels", ".nii">>, <<"T1", ".nii", ".gz">>}

\* What a patient entry can be on disk.
PatientEntries ==
    {e \in [isdir : BOOLEAN, results : {"missing", "file", "dir"},
            files : SUBSET ResultNames] :
        /\ ~e.isdir => e.results = "missing"
        /\ e.results # "dir" => e.files = {}}

\* The leading characters of the names an entry of a patient directory may
\* have.
FolderNames == {<<"2", "0", "1", "9">>, <<"2", "0">>, <<"1", "9", "2", "0">>, <<"2">>}

\* What an entry of a patient directory can be on disk.
FolderEntries ==
    {e \in [isdir : BOOLEAN, name : FolderNames, registered : {"missing", "file", "dir"},
            tfm : {"missing", "file"}, mag : {"missing", "file"}] :
        /\ ~e.isdir => e.registered = "missing"
        /\ e.registered # "dir" => e.tfm = "missing" /\ e.mag = "missing"}

\* Lines 103-107: the names the search can stop at.
LesionCandidates(e) == {f \in e.files : Contains(f, LesionLabels)}

\* Lines 90-111: the checks on a patient entry, in the code's order.
PatientKindOf(e) ==
    IF ~e.isdir THEN "not_a_directory"
    ELSE IF e.results # "dir" THEN "no_results_folder"
    ELSE IF LesionCandidates(e) = {} THEN "no_lesion_file"
    ELSE "patient"

FolderKindOfAnyMagnitude(e) ==
    IF ~e.isdir THEN "not_a_directory"
    ELSE IF ~StartsWith(e.name, <<"2", "0">>) THEN "not_a_year"
    ELSE IF e.registered # "dir" THEN "no_registered"
    ELSE IF e.tfm # "file" THEN "no_transform"
    ELSE "year"

\* Lines 115-138: the checks on an entry of the patient directory, in the
\* code's order.
FolderKindOf(e) ==
    IF ~e.isdir THEN "not_a_directory"
    ELSE IF ~StartsWith(e.name, <<"2", "0">>) THEN "not_a_year"
    ELSE IF e.registered # "dir" THEN "no_registered"
    ELSE IF e.tfm # "file" THEN "no_transform"
    ELSE IF e.mag # "file" THEN "no_magnitude"
    ELSE "year"

NoEntry == [isdir |-> FALSE, results |-> "missing", files |-> {}]

NoYear == [isdir |-> FALSE, name |-> <<"2">>, registered |-> "missing",
           tfm |-> "missing", mag |-> "missing"]

\* Lines 141-148: the arguments of the call for the current year folder.
LesionCall(w) ==
    [entry |-> <<w.root, w.patient, w.folder>>,
     mask_path |-> w.lesion,
     transform_matrix |-> RegisteredPath(w.root, w.patient, w.folder,
                                         "T1_corrected_canonical.nii_toMag_transform.tfm"),
     magnitude_path |-> RegisteredPath(w.root, w.patient, w.folder,
                                       "mag_canonical.nii.gz"),
     out_mask |-> RegisteredPath(w.root, w.patient, w.folder,
                                 "lesions_MSpace_Mask.nii.gz")]

\* transform_lesion_labels_in_directory(root_dir) called on one of the two
\* directories.
InitLesionWalk ==
    /\ prog = "transform_lesion_labels_in_directory"
    /\ \E r \in DOMAIN RootDirs :
          /\ args = [root_dir |-> RootDirs[r]]
          /\ walk = [root |-> r, patient |-> 0, folder |-> 0, entry |-> NoEntry,
                     year |-> NoYear, lesion |-> NoPath, calls |-> {}, written |-> {}]
    /\ fs = [p \in Paths |-> NoFile]
    /\ pc = "list_patient"
    /\ loc = NoLocals
    /\ opt = None
    /\ ret = NoReturn
    /\ printed = <<>>
    /\ error = NoError
    /\ log = <<>>

\* Lines 89-111: the next entry of root_dir and the checks on it; the first
\* matching name of the listing, whose order is the system's, is the lesion
\* label file.
ListPatient ==
    /\ pc = "list_patient"
    /\ walk.patient < NPatients
    /\ \/ \E e \in PatientEntries :
            /\ \/ /\ PatientKindOf(e) = "patient"
                  /\ \E f \in LesionCandidates(e) :
                        walk' = [walk EXCEPT
                                   !.patient = @ + 1, !.folder = 0, !.entry = e,
                                   !.year = NoYear,
                                   !.lesion = <<RootDirs[walk.root], walk.patient + 1,
                                                "RESULTS_xnatSpaceMS", f>>]
                  /\ pc' = "list_folder"
               \/ /\ PatientKindOf(e) # "patient"
                  /\ walk' = [walk EXCEPT !.patient = @ + 1, !.folder = 0, !.entry = e,
                                          !.year = NoYear, !.lesion = NoPath]
                  /\ pc' = "list_patient"
            /\ UNCHANGED error
       \/ /\ walk.patient = 0
          /\ Raise("transform_lesion_labels_in_directory", "os.listdir")
          /\ UNCHANGED walk
    /\ UNCHANGED <<prog, args, fs, loc, opt, ret, printed, log>>

\* Line 89, listing exhausted: the function returns.
EndRoot ==
    /\ pc = "list_patient"
    /\ walk.patient = NPatients
    /\ pc' = "done"
    /\ UNCHANGED <<prog, args, fs, loc, opt, ret, printed, error, log, walk>>

\* Lines 114-138: the next entry of the patient directory and the checks
\* on it.
ListFolder ==
    /\ pc = "list_folder"
    /\ walk.folder < NFolders
    /\ \E e \in FolderEntries :
          /\ walk' = [walk EXCEPT !.folder = @ + 1, !.year = e]
          /\ pc' = IF FolderKindOf(e) = "year" THEN "apply" ELSE "list_folder"
    /\ UNCHANGED <<prog, args, fs, loc, opt, ret, printed, error, log>>

\* Line 114, listing exhausted: on to the next patient.
EndPatient ==
    /\ pc = "list_folder"
    /\ walk.folder = NFolders
    /\ pc' = "list_patient"
    /\ UNCHANGED <<prog, args, fs, loc, opt, ret, printed, error, log, walk>>

\* Lines 140-148: apply_transform_to_mask is called; it writes out_mask and
\* returns, or raises on a file it cannot read or write.
ApplyLesionTransform ==
    /\ pc = "apply"
    /\ \/ /\ walk' = [walk EXCEPT !.calls = @ \cup {LesionCall(walk)},
                                   !.written = @ \cup {LesionCall(walk).out_mask}]
          /\ printed' = Append(printed, "[Mask Resampling Complete]")
          /\ pc' = "list_folder"
          /\ UNCHANGED error
       \/ /\ walk' = [walk EXCEPT !.calls = @ \cup {LesionCall(walk)}]
          /\ Raise("apply_transform_to_mask", "ReadImage, ReadTransform or WriteImage")
          /\ UNCHANGED printed
    /\ UNCHANGED <<prog, args, fs, loc, opt, ret, log>>

NextLesionWalk ==
    \/ ListPatient
    \/ EndRoot
    \/ ListFolder
    \/ EndPatient
    \/ ApplyLesionTransform

SpecLesionWalk == InitLesionWalk /\ [][NextLesionWalk]_vars

-----------------------------------------------------------------------------
(* register_t1_to_magnitude called on paths of several shapes, with its    *)
(* default output paths.                                                    *)

RECURSIVE Join(_)
\* The path string a sequence of tokens spells.
Join(p) == IF Len(p) = 0 THEN "" ELSE Head(p) \o Join(Tail(p))

RegisterT1Paths ==
    {<<"D/", "T1_corrected_canonical", ".nii", ".gz">>, <<"D/", "T1", ".nii">>, <<"T1">>}

\* The magnitude path is any path the caller passes: another file, the T1
\* itself, or a file that bears one of the names of lines 30 and 34.
RegisterMagPaths(t1_path) ==
    {<<"D/", "mag_canonical", ".nii", ".gz">>, t1_path,
     DefaultOutRegistered(t1_path), DefaultOutMatrix(t1_path)}

RegisterPaths ==
    UNION {RegisterMagPaths(t) \cup {DefaultOutRegistered(t), DefaultOutMatrix(t)} :
              t \in RegisterT1Paths}

\* Line 205: register_t1_to_magnitude(t1_path, magnitude_path) with
\* out_matrix and out_registered left at None.
InitRegister ==
    /\ prog = "main_registration_pipeline"
    /\ \E t \in RegisterT1Paths :
          \E m \in RegisterMagPaths(t) :
              /\ args = [PipelineArgs EXCEPT !.t1_path = t, !.magnitude_path = m]
              /\ \E ti \in T1Files \ {NoFile}, mi \in MagFiles \ {NoFile} :
                    fs = [p \in RegisterPaths |->
                            IF p = m
                            THEN IF m = DefaultOutMatrix(t)
                                 THEN TransformFile([a |-> 1, t |-> 0])
                                 ELSE mi
                            ELSE IF p = t THEN ti
                            ELSE NoFile]
    /\ pc = "reg_enter"
    /\ loc = NoLocals
    /\ opt = None
    /\ ret = NoReturn
    /\ printed = <<>>
    /\ error = NoError
    /\ log = <<>>
    /\ walk = NoWalk

NextRegister ==
    \/ RegRead
    \/ RegExecute
    \/ RegResample
    \/ RegWriteImage
    \/ RegWriteTransform
    \/ RegReturn

SpecRegister == InitRegister /\ [][NextRegister]_vars

-----------------------------------------------------------------------------
(* preprocessing/reorient.py: the command line, batch_reorient and          *)
(* reorient_to_canonical.  A path is a directory and a name of tokens; a   *)
(* NIfTI file holds its samples along one axis that runs "R" or "L".       *)

FilePath(dir, name) == [dir |-> dir, name |-> name]

DirPath(dir) == [dir |-> dir, name |-> <<>>]

NiftiFile(axis, d) == [kind |-> "nifti", axis |-> axis, data |-> d]

Directory == [kind |-> "dir"]

RECURSIVE RemoveNiiGz(_)
\* str.replace(".nii.gz", "")
RemoveNiiGz(name) ==
    IF Len(name) = 0 THEN name
    ELSE IF Len(name) >= 2 /\ name[1] = ".nii" /\ name[2] = ".gz"
         THEN RemoveNiiGz(SubSeq(name, 3, Len(name)))
         ELSE <<name[1]>> \o RemoveNiiGz(Tail(name))

\* str.replace(".nii", "")
RemoveNii(name) == SelectSeq(name, LAMBDA tok : tok # ".nii")

\* os.path.splitext(p)[1]: from the last dot on, "" without one.
SplitextExt(p) ==
    LET dots == {i \in 2..Len(p) : p[i] \in ExtTokens}
    IN  IF dots = {} THEN <<>> ELSE SubSeq(p, Max(dots), Len(p))

\* Lines 45-53: the output path reorient_to_canonical builds when it is
\* given none: next to the input.
InPlaceOutput(image_path) ==
    IF SplitextExt(image_path.name) = <<".gz">>
    THEN FilePath(image_path.dir,
                  RemoveNiiGz(image_path.name) \o <<"_canonical", ".nii", ".gz">>)
    ELSE FilePath(image_path.dir,
                  SplitextBase(image_path.name) \o <<"_canonical">>
                      \o SplitextExt(image_path.name))

\* Lines 77-78: the output path batch_reorient builds in output_dir.
BatchOutput(img_path, output_dir) ==
    FilePath(output_dir,
             RemoveNii(RemoveNiiGz(img_path.name)) \o <<"_canonical", ".nii", ".gz">>)

RECURSIVE Reverse(_)
Reverse(d) == IF Len(d) = 0 THEN d ELSE Append(Reverse(Tail(d)), Head(d))

\* nib.as_closest_canonical: the samples reordered to run along "R".
AsClosestCanonical(img) ==
    IF img.axis = "R" THEN img ELSE NiftiFile("R", Reverse(img.data))

ReorientInputs ==
    {FilePath("data", <<"T1", ".nii", ".gz">>), FilePath("data", <<"mask", ".nii">>)}

ReorientDirs == {"data", "reoriented"}

ReorientPaths ==
    ReorientInputs \cup {DirPath(d) : d \in ReorientDirs}
      \cup {InPlaceOutput(p) : p \in ReorientInputs}
      \cup {BatchOutput(p, d) : p \in ReorientInputs, d \in ReorientDirs}

\* Lines 110-116: --input takes one or more paths, --output_dir defaults to
\* None.
InitReorient ==
    /\ prog = "reorient"
    /\ \E n \in 1..MaxInputs :
          \E input \in [1..n -> ReorientInputs], output_dir \in {None} \cup ReorientDirs :
              args = [input |-> input, output_dir |-> output_dir]
    /\ \E present \in SUBSET ReorientInputs, axis \in {"R", "L"} :
          fs = [p \in ReorientPaths |->
                  IF p \in present THEN NiftiFile(axis, <<1, 2>>)
                  ELSE IF p = DirPath("data") THEN Directory
                  ELSE NoFile]
    /\ pc = "batch_enter"
    /\ loc = [i |-> 0, reoriented_paths |-> <<>>]
    /\ opt = None
    /\ ret = NoReturn
    /\ printed = <<>>
    /\ error = NoError
    /\ log = <<>>
    /\ walk = NoWalk

\* Lines 118 and 71-74: batch_reorient(args.input, output_dir) tests
\* os.path.exists(output_dir), which raises TypeError for None, and makes
\* the directory when it is absent.
BatchEnter ==
    /\ pc = "batch_enter"
    /\ \/ /\ args.output_dir = None
          /\ Raise("batch_reorient", "TypeError")
          /\ UNCHANGED fs
       \/ /\ args.output_dir # None
          /\ fs' = [fs EXCEPT ![DirPath(args.output_dir)] = Directory]
          /\ pc' = "batch_loop"
          /\ UNCHANGED error
    /\ UNCHANGED <<prog, args, loc, opt, ret, printed, log, walk>>

\* Lines 75-80 and 39-58: the next image is loaded, reoriented and saved
\* under the name built from output_dir.
BatchStep ==
    /\ pc = "batch_loop"
    /\ loc.i < Len(args.input)
    /\ LET img_path == args.input[loc.i + 1]
           output_path == BatchOutput(img_path, args.output_dir)
       IN  \/ /\ fs[img_path].kind = "nifti"
              /\ fs' = [fs EXCEPT ![output_path] = AsClosestCanonical(fs[img_path])]
              /\ printed' = Append(printed, <<"Reoriented image saved at", output_path>>)
              /\ loc' = [i |-> loc.i + 1,
                         reoriented_paths |-> Append(loc.reoriented_paths, output_path)]
              /\ UNCHANGED <<pc, error>>
           \/ /\ fs[img_path].kind # "nifti"
              /\ Raise("reorient_to_canonical", "nib.load")
              /\ UNCHANGED <<fs, printed, loc>>
           \/ /\ fs[img_path].kind = "nifti"
              /\ Raise("reorient_to_canonical", "nib.save")
              /\ UNCHANGED <<fs, printed, loc>>
    /\ UNCHANGED <<prog, args, opt, ret, log, walk>>

\* Line 81: return reoriented_paths.
BatchReturn ==
    /\ pc = "batch_loop"
    /\ loc.i = Len(args.input)
    /\ ret' = [ret EXCEPT !.main = loc.reoriented_paths]
    /\ pc' = "done"
    /\ UNCHANGED <<prog, args, fs, loc, opt, printed, error, log, walk>>

NextReorient ==
    \/ BatchEnter
    \/ BatchStep
    \/ BatchReturn

SpecReorient == InitReorient /\ [][NextReorient]_vars

-----------------------------------------------------------------------------
(* Properties *)

Pipeline == prog = "main_registration_pipeline"

Walker == prog = "reg_mspace_masks.main"

Terminal == pc \in {"done", "raised"}

Idx(ev) == {i \in 1..Len(log) : log[i].ev = ev}

ResampleIdx(who) == {i \in Idx("resample") : log[i].who = who}

DependentIdx == ResampleIdx("mask") \cup ResampleIdx("flair")

\* The transform the registration's Execute returned in this run.
EstimatedTx == log[CHOOSE i \in Idx("estimate") : TRUE].tx

IdentityTx == [a |-> 1, t |-> 0]

\* C1: in main_registration_pipeline no resampling (T1, mask, FLAIR) starts
\* before the registration estimate has completed; the dependents start only
\* after the primary resampling and after the transform was written; no
\* stage is entered twice.
C1_StagesInOrder ==
    Pipeline =>
        /\ Cardinality(Idx("estimate")) <= 1
        /\ \A w \in {"t1", "mask", "flair"} : Cardinality(ResampleIdx(w)) <= 1
        /\ \A i \in Idx("resample") : \E j \in Idx("estimate") : j < i
        /\ \A i \in DependentIdx : \E j \in ResampleIdx("t1") : j < i
        /\ \A i \in Idx("read_transform") :
              \E j \in Idx("write") : j < i /\ log[j].path = DefaultOutMatrix(args.t1_path)
        /\ \A i \in ResampleIdx("flair") : \E j \in ResampleIdx("mask") : j < i

C1_Witness ==
    /\ Pipeline
    /\ pc = "done"
    /\ ResampleIdx("t1") # {}
    /\ ResampleIdx("mask") # {}
    /\ ResampleIdx("flair") # {}

\* C2: every dependent is resampled with the transform the estimate produced
\* and persisted: the mask and the FLAIR read the file register returned, its
\* content is the estimated transform, it is not altered after it was
\* written or read, and the directory walk never writes a transform file.
C2_SameUnmodifiedTransform ==
    /\ Pipeline =>
          /\ \A i \in Idx("read_transform") :
                /\ Idx("estimate") # {}
                /\ log[i].path = ret.register[2]
                /\ log[i].tx = EstimatedTx
          /\ \A i \in DependentIdx : log[i].tx = EstimatedTx
          /\ ret.register # NoPath => fs[ret.register[2]] = TransformFile(EstimatedTx)
    /\ \A i \in Idx("read_transform") : fs[log[i].path] = TransformFile(log[i].tx)
    /\ \A i \in DependentIdx :
          \E j \in Idx("read_transform") : j < i /\ log[j].tx = log[i].tx
    /\ \A c \in walk.calls : c.transform_matrix \notin walk.written

C2_Witness ==
    /\ Pipeline
    /\ pc = "done"
    /\ EstimatedTx # IdentityTx
    /\ \A w \in {"mask", "flair"} : \E i \in ResampleIdx(w) : log[i].tx = EstimatedTx

C4_SiblingSurvivesMaskFailure ==
    ( /\ Pipeline
      /\ Terminal
      /\ error.fn = "apply_transform_to_mask"
      /\ ReadOk(fs[args.flair]) )
    => /\ ResampleIdx("flair") # {}
       /\ ReadOk(fs[DefaultOutFlair(args.flair)])

\* C5: when the estimate fails (reading the inputs or Execute raises) the
\* run has ended with that exception, no output file exists, nothing was
\* resampled and nothing was returned.
C5_EstimateFailureHalts ==
    ( /\ Pipeline
      /\ error.fn = "register_t1_to_magnitude"
      /\ error.what \in {"ReadImage", "Execute"} )
    => /\ pc = "raised"
       /\ fs[DefaultOutRegistered(args.t1_path)] = NoFile
       /\ fs[DefaultOutMatrix(args.t1_path)] = NoFile
       /\ fs[DefaultOutMask(args.mask_path)] = NoFile
       /\ fs[DefaultOutFlair(args.flair)] = NoFile
       /\ Idx("resample") = {}
       /\ Idx("write") = {}
       /\ ret = NoReturn

C5_Witness ==
    /\ Pipeline
    /\ pc = "raised"
    /\ error.what = "Execute"
    /\ ReadOk(fs[args.mask_path])
    /\ ReadOk(fs[args.flair])

\* C6: once register_t1_to_magnitude has returned, the file at the returned
\* transform path holds the final transform; a dependent reads the transform
\* only after it was written; a run that only applies the transform (the
\* direct call, the directory walk) never runs the registration.
C6_TransformPersistedOnReturn ==
    /\ ret.register # NoPath =>
          /\ Idx("estimate") # {}
          /\ fs[ret.register[2]].kind = "transform"
          /\ fs[ret.register[2]].tx = EstimatedTx
          /\ \E j \in Idx("write") : log[j].path = ret.register[2]
    /\ Pipeline =>
          \A i \in Idx("read_transform") :
              /\ ret.register # NoPath
              /\ \E j \in Idx("write") : j < i /\ log[j].path = log[i].path
    /\ ~Pipeline =>
          /\ Idx("estimate") = {}
          /\ opt = None
          /\ \A i \in Idx("read_transform") : log[i].path = args.transform_matrix

C6_Witness ==
    /\ Pipeline
    /\ ret.register # NoPath
    /\ \E i \in Idx("read_transform") : log[i].path = ret.register[2]

\* C7: when processing one year folder fails in the directory walk, every
\* patient entry of both root directories has still been visited when the
\* run ends.
C7_BatchFailureIsolated ==
    ( /\ Walker
      /\ Terminal
      /\ error.fn = "apply_transform_to_mask" )
    => \A r \in 1..Len(RootDirs), p \in 1..NPatients : <<r, p>> \in walk.seen

\* What register_t1_to_magnitude returned and printed in this run.
RegisterOutput ==
    [returned |-> ret.register,
     printed |-> SubSeq(printed, 1, Len(RegistrationReport(None, None, None, None)))]

\* What it returns and prints when the optimizer met its tolerance.
ConvergedOutput ==
    [returned |-> <<DefaultOutRegistered(args.t1_path), DefaultOutMatrix(args.t1_path)>>,
     printed |-> RegistrationReport(args.t1_path, args.magnitude_path,
                                    DefaultOutRegistered(args.t1_path),
                                    DefaultOutMatrix(args.t1_path))]

\* C8: a registration whose optimizer stopped at the iteration cap is
\* reported differently from a converged one.
C8_NonConvergenceDistinguished ==
    ( /\ Pipeline
      /\ ret.register # NoPath
      /\ opt.stop = "MaxIterations" )
    => RegisterOutput # ConvergedOutput

\* The label values stored in the mask file.
StoredLabels == SetOf(fs[args.mask_path].data)

C10_OutputOnReferenceGrid ==
    /\ \A i \in Idx("resample") :
          /\ log[i].out_grid = log[i].ref_grid
          /\ log[i].ref_grid = fs[args.magnitude_path].grid
    /\ pc \in {"reg_write_image", "mask_write", "flair_write"} =>
          loc.fixed_image = ReadImage(fs[args.magnitude_path], sitkFloat32)
    /\ pc = "reg_write_image" =>
          /\ loc.moving_image = ReadImage(fs[args.t1_path], sitkFloat32)
          /\ loc.registered_image.grid = loc.fixed_image.grid
    /\ pc = "mask_write" =>
          /\ loc.mask_image = ReadImage(fs[args.mask_path], sitkUInt8)
          /\ loc.resampled.grid = loc.fixed_image.grid
    /\ pc = "flair_write" =>
          /\ loc.flair_image = ReadImage(fs[args.flair], sitkFloat32)
          /\ loc.resampled.grid = loc.fixed_image.grid
    /\ \A p \in {DefaultOutRegistered(args.t1_path), DefaultOutMask(args.mask_path),
                 DefaultOutFlair(args.flair), LesionOutPath} :
          ReadOk(fs[p]) => fs[p].grid = fs[args.magnitude_path].grid

C10_Witness ==
    /\ Pipeline
    /\ pc = "done"
    /\ \A w \in {"t1", "mask", "flair"} :
          \E i \in ResampleIdx(w) : log[i].src_grid # log[i].ref_grid
                                    /\ log[i].out_grid = log[i].ref_grid

\* C11: two runs of the registration on the same fixed and moving images
\* produce the same transform: the sample is drawn under a fixed seed, so
\* the estimate depends on nothing but its inputs.
C11_SameInputsSameTransform ==
    \A i, j \in Idx("estimate") : log[i].tx = log[j].tx

\* C12: run with --input paths that are readable images and without
\* --output_dir, the reorient command raises no error and, when it has
\* ended, a canonical file exists next to every input.
C12_InPlaceWithoutOutputDir ==
    ( /\ prog = "reorient"
      /\ args.output_dir = None
      /\ \A i \in DOMAIN args.input : fs[args.input[i]].kind = "nifti" )
    => /\ error = NoError
       /\ pc = "done" =>
             \A i \in DOMAIN args.input :
                 fs[InPlaceOutput(args.input[i])].kind = "nifti"

\* The affine's determinant is at the numerical floor.
SingularTx(tx) == tx.a = 0

\* C13: a singular estimated transform is never silently used: after an
\* estimate that is singular no transform file is written and the run ends
\* in NonInvertibleTransformError, and a mask resampling through a singular
\* transform is not followed by the write of its output file.
C13_SingularTransformSurfaced ==
    /\ \A i \in Idx("estimate") : SingularTx(log[i].tx) =>
          /\ ~\E j \in Idx("write") : j > i /\ fs[log[j].path].kind = "transform"
          /\ Terminal => error.what = "NonInvertibleTransformError"
    /\ \A i \in ResampleIdx("mask") : SingularTx(log[i].tx) =>
          ~\E j \in Idx("write") : j = i + 1

\* The optimizer is at work inside Execute.
Optimizing == pc = "opt_iterate"

\* The levels follow the schedule, the iteration count stays within the cap
\* and the cap is the only reason to stop at it.
C14_LevelsBounded ==
    Optimizing =>
        /\ opt.level \in 1..3
        /\ opt.shrink = <<4, 2, 1>>[opt.level]
        /\ opt.sigma = <<2, 1, 0>>[opt.level]
        /\ opt.iteration \in 0..200
        /\ opt.stop = "MaxIterations" => opt.iteration = 200

\* Every step of Execute makes progress: it starts level 1 from the
\* centre-aligned initial transform; at a level it either counts one more
\* iteration or stops the level; a stopped level is followed by the next
\* finer one, started from the stopped level's estimate, or, at the last
\* level, by the return of that estimate; or an exception ends the run.
C14_Progress ==
    /\ (pc = "reg_execute" /\ pc' = "opt_iterate") =>
          /\ opt'.level = 1
          /\ opt'.iteration = 0
          /\ opt'.stop = None
          /\ opt'.tx.a = 1
          /\ 2 * opt'.tx.t + Centre2(loc.fixed_image.grid)
                 \in {Centre2(loc.moving_image.grid), Centre2(loc.moving_image.grid) - 1}
    /\ (Optimizing /\ pc' = "opt_iterate") =>
          \/ /\ opt.stop = None
             /\ opt'.level = opt.level
             /\ opt'.stop = None
             /\ opt'.iteration = opt.iteration + 1
          \/ /\ opt.stop = None
             /\ opt'.level = opt.level
             /\ opt'.stop # None
             /\ opt'.iteration = opt.iteration
             /\ opt'.tx = opt.tx
          \/ /\ opt.stop # None
             /\ opt'.level = opt.level + 1
             /\ opt'.stop = None
             /\ opt'.iteration = 0
             /\ opt'.tx = opt.tx
    /\ (Optimizing /\ pc' # "opt_iterate") =>
          \/ pc' = "raised"
          \/ /\ opt.stop # None
             /\ opt.level = 3
             /\ pc' = "reg_resample"
             /\ loc'.final_transform = opt.tx

\* C14 as stated: the registration terminates, level by level in the order
\* (4, 2), (2, 1), (1, 0), each level seeded by the one before, at most 200
\* iterations per level, and a level stops for one of two reasons: the
\* iteration cap or the gradient magnitude below the tolerance.
C14_TwoStopReasons ==
    /\ [](C14_LevelsBounded
          /\ (Optimizing => opt.stop \in {None, "MaxIterations", "GradientTolerance"}))
    /\ [][C14_Progress]_vars

\* C14, amended: as above, and a level stops for one of three reasons: the
\* iteration cap, the gradient magnitude below the tolerance, or the step
\* length relaxed below minStep.
C14_ThreeStopReasons ==
    /\ [](C14_LevelsBounded
          /\ (Optimizing =>
                 opt.stop \in {None, "MaxIterations", "GradientTolerance", "MinStep"}))
    /\ [][C14_Progress]_vars

\* Execute returned after its last level stopped on the step length, with
\* an estimate other than the initial transform.
C14_Witness ==
    /\ prog = "register_t1_to_magnitude"
    /\ pc = "reg_resample"
    /\ opt.stop = "MinStep"
    /\ loc.final_transform #
          CenteredTransformInitializer(loc.fixed_image, loc.moving_image)

\* The conditions under which a (patient, folder) pair is to be processed.
PairEligible(patient, folder) ==
    /\ patient.isdir
    /\ patient.results = "dir"
    /\ \E f \in patient.files : Contains(f, <<"lesion_labels", ".nii", ".gz">>)
    /\ folder.isdir
    /\ Len(folder.name) >= 2 /\ folder.name[1] = "2" /\ folder.name[2] = "0"
    /\ folder.registered = "dir"
    /\ folder.tfm = "file"
    /\ folder.mag = "file"

\* Looking at the next patient entry: one that lacks the results directory
\* or the label file is passed over, nothing called or written, and the
\* walk goes on to the next entry.
C15_PatientStep ==
    (pc = "list_patient" /\ walk'.patient = walk.patient + 1) =>
        /\ walk'.calls = walk.calls
        /\ walk'.written = walk.written
        /\ error' = NoError
        /\ IF \E y \in FolderEntries : PairEligible(walk'.entry, y)
           THEN pc' = "list_folder"
           ELSE pc' = "list_patient"

\* Looking at the next folder: the call follows exactly when the pair is
\* eligible; otherwise nothing is called or written and the walk goes on.
C15_FolderStep ==
    (pc = "list_folder" /\ walk'.folder = walk.folder + 1) =>
        /\ walk'.calls = walk.calls
        /\ walk'.written = walk.written
        /\ error' = NoError
        /\ IF PairEligible(walk'.entry, walk'.year)
           THEN pc' = "apply"
           ELSE pc' = "list_folder"

\* A call is made only for the current, eligible pair, with the label file
\* of this patient and the transform and magnitude of this year folder; it
\* writes nothing but that folder's registered/lesions_MSpace_Mask.nii.gz,
\* which no earlier call wrote.
C15_CallStep ==
    (walk'.calls # walk.calls \/ walk'.written # walk.written) =>
        LET here == <<walk.root, walk.patient, walk.folder>>
            reg(name) == <<RootDirs[here[1]], here[2], here[3], "registered", name>>
        IN  /\ pc = "apply"
            /\ PairEligible(walk.entry, walk.year)
            /\ \E f \in walk.entry.files :
                  /\ Contains(f, <<"lesion_labels", ".nii", ".gz">>)
                  /\ walk'.calls = walk.calls \cup
                        {[entry |-> here,
                          mask_path |-> <<RootDirs[here[1]], here[2],
                                          "RESULTS_xnatSpaceMS", f>>,
                          transform_matrix |->
                              reg("T1_corrected_canonical.nii_toMag_transform.tfm"),
                          magnitude_path |-> reg("mag_canonical.nii.gz"),
                          out_mask |-> reg("lesions_MSpace_Mask.nii.gz")]}
            /\ walk'.written \subseteq walk.written \cup {reg("lesions_MSpace_Mask.nii.gz")}
            /\ reg("lesions_MSpace_Mask.nii.gz") \notin walk.written
            /\ \A c \in walk.calls : c.entry # here

Returned == ret.register # NoPath

\* The name the directory walk looks up in registered/.
WalkerTransformName ==
    LesionCall([root |-> 1, patient |-> 1, folder |-> 1,
                lesion |-> NoPath]).transform_matrix[5]

\* A path less its last extension, if its name has one.
LessLastExtension(path) ==
    IF Len(path) > 1 /\ path[Len(path)] \in {".nii", ".gz", ".tfm"}
    THEN SubSeq(path, 1, Len(path) - 1)
    ELSE path

\* The returned transform path is the T1 path less its last extension plus
\* "_toMag_transform.tfm", which for D/T1_corrected_canonical.nii.gz is the
\* walker's name in D/; the returned pair names an image file and a
\* transform file, the two files written, distinct from each other and from
\* the T1 path.
C16_NamesAndWrites ==
    Returned =>
        LET t1 == args.t1_path
        IN  /\ Join(ret.register[2]) = Join(LessLastExtension(t1)) \o "_toMag_transform.tfm"
            /\ Join(t1) = "D/T1_corrected_canonical.nii.gz" =>
                  /\ Join(ret.register[2]) = "D/T1_corrected_canonical.nii_toMag_transform.tfm"
                  /\ Join(ret.register[2]) = "D/" \o WalkerTransformName
            /\ {log[i].path : i \in Idx("write")} = {ret.register[1], ret.register[2]}
            /\ fs[ret.register[1]].kind = "image"
            /\ fs[ret.register[2]].kind = "transform"
            /\ ret.register[1] # ret.register[2]
            /\ ret.register[1] # t1
            /\ ret.register[2] # t1

\* C16 as stated: the default names, the two files written, and both
\* distinct from the T1 path and from the magnitude path.
C16_DistinctFromBothInputs ==
    /\ C16_NamesAndWrites
    /\ Returned =>
          /\ ret.register[1] # args.magnitude_path
          /\ ret.register[2] # args.magnitude_path

\* C16, amended: the default names and the two files written, distinct from
\* the T1 path; the transform path is never the magnitude path, and the
\* registered image path is the magnitude path exactly when the magnitude
\* file is itself named <T1 less its last extension>_toMag.nii.gz, and then
\* the registered image has replaced it.
C16_DistinctUnlessMagnitudeNamedToMag ==
    /\ C16_NamesAndWrites
    /\ Returned =>
          /\ ret.register[2] # args.magnitude_path
          /\ ret.register[1] = args.magnitude_path
                <=> Join(args.magnitude_path)
                        = Join(LessLastExtension(args.t1_path)) \o "_toMag.nii.gz"
          /\ ret.register[1] = args.magnitude_path =>
                \E i \in Idx("write") : log[i].path = args.magnitude_path

\* The registration returned for D/T1_corrected_canonical.nii.gz with a
\* magnitude file that bears the default name of the registered image.
C16_Witness ==
    /\ Returned
    /\ Join(args.t1_path) = "D/T1_corrected_canonical.nii.gz"
    /\ Join(args.magnitude_path) = "D/T1_corrected_canonical.nii_toMag.nii.gz"
    /\ Join(ret.register[2]) = "D/T1_corrected_canonical.nii_toMag_transform.tfm"

=============================================================================
